---------------------------- MODULE Spec2Model ----------------------------
(***************************************************************************)
(* POSIX semaphores of kernel/posix/semaphore.c: the static table          *)
(* sem_named[], the counter sem_named_n, the three registry transactions   *)
(* sem_open, sem_close and sem_unlink, and the calls on a semaphore's      *)
(* count (sem_init, sem_post, sem_wait, sem_trywait, sem_timedwait).       *)
(*                                                                         *)
(* Spec makes the calls one after another, each a whole call.              *)
(* SpecThreads has threads make them, the registry transactions a          *)
(* statement group at a time under the irq lock each of them takes.        *)
(* SpecTimed makes the calls on the count, sem_timedwait among them, on    *)
(* a semaphore outside the table, with the waits inside k_sem_take.        *)
(*                                                                         *)
(* Representation.                                                         *)
(*  - A slot of sem_named[] is a record [sem, name, refs, to_free,         *)
(*    in_use]; sem is the count of the embedded k_sem.                     *)
(*  - A sem_t pointer is the index of the slot whose sem it addresses      *)
(*    (&sem_named[i].sem is i); SEM_FAILED, the NULL pointer, is 0.        *)
(*  - A name is a pointer to a string of the caller: sem_open stores the   *)
(*    pointer, and strncmp compares what the pointers address when it is   *)
(*    called.  Pointer Array addresses an array the caller can rewrite;    *)
(*    its content is buf.  Every other pointer p of Names addresses a      *)
(*    string literal, the string p.  A string is a number; it stands for   *)
(*    the first PATH_MAX characters, which is all strncmp compares.        *)
(*    NullName is the NULL pointer a never-used slot holds.                *)
(*  - refs is a u32.  It is kept as the int that dereference_nsem returns  *)
(*    for it (the same 32 bits read in two's complement), so the value     *)
(*    2^32 - 1 that 0 wraps to is -1, and 2^32 - k is -k.                  *)
(***************************************************************************)
EXTENDS Integers, FiniteSets, Sequences, TLC

\* Size of sem_named[]; 32 in the source, scaled down for model checking.
SEM_NAMED_N_LIMIT == 2
\* Initial values handed to sem_open and sem_init are 0 and MaxValue.
MaxValue == 1
\* Call sequences of up to MaxCalls calls are explored.
MaxCalls == 4

O_CREAT == 1
O_EXCL == 2
SEM_FAILED == 0
NullName == 0
INT_MAX == 2147483647
INT_MIN == -INT_MAX - 1

ENOENT == "ENOENT"
EBUSY == "EBUSY"
EEXIST == "EEXIST"
EINVAL == "EINVAL"
ENFILE == "ENFILE"
EAGAIN == "EAGAIN"
ETIMEDOUT == "ETIMEDOUT"
NoErrno == "0"
\* Not an errno: the call trapped on a read through NULL and does not return.
SIGSEGV == "SIGSEGV"

Slots == 1..SEM_NAMED_N_LIMIT
\* One name more than there are slots, so that the table can be overfilled.
Names == 1..(SEM_NAMED_N_LIMIT + 1)
\* The pointer of Names that addresses the caller's array; the others address literals.
Array == 1
\* The strings: what the literals hold, and what the array can be made to hold.
Strings == Names
Values == {0, MaxValue}
\* Counts are followed up to MaxCount: sem_post is made below it only.
MaxCount == MaxValue + 1
Oflags == 0..(O_CREAT + O_EXCL)
SemPtrs == 0..SEM_NAMED_N_LIMIT

HasFlag(oflag, bit) == (oflag \div bit) % 2 = 1

Min(S) == CHOOSE x \in S : \A y \in S : x <= y

VARIABLES
    sem_named,    \* the table: Slots -> slot record
    sem_named_n,  \* the used-slot counter
    buf,          \* the string the caller's array holds
    errno,        \* errno as the last call left it, cleared before the call
    call,         \* the last call made ("trap": it trapped and nothing runs any more)
    ret,          \* the value the last call returned
    held,         \* per slot: successful opens minus successful closes since its creation
    unlinked,     \* per slot: a successful unlink of it since its creation
    slot,         \* the slot the last call found, allocated or was handed (0 if none)
    hcreate,      \* per string: the handle the open that created that name last returned
    ncalls,       \* the number of calls made so far
    irq,          \* the thread that holds the irq lock (0 if none)
    pc,           \* per thread: where it is in its call
    targ,         \* per thread: the call it is in and its arguments
    tloc,         \* per thread: its local nsem and the errno of the branch it took
    tret,         \* per thread: the value it is about to return, and its errno
    last,         \* the thread and name of the call that returned last, if it was an
                  \* exclusive create that returned a handle
    tw            \* the semaphore outside the table and the last call made on it

hvars == <<errno, call, ret, slot, held, unlinked, hcreate>>
tvars == <<irq, pc, targ, tloc, tret, last>>
vars == <<sem_named, sem_named_n, buf, ncalls, hvars, tvars, tw>>

\* The threads that call into the registry.
Threads == {1, 2}
NoArg == [op |-> "none", name |-> NullName, oflag |-> 0, value |-> 0, sem |-> 0]
NoLoc == [nsem |-> 0, err |-> NoErrno]
NoRet == [ret |-> 0, errno |-> NoErrno]
NoLast == [t |-> 0, name |-> NullName]

\* No call made yet on the semaphore outside the table; its count is 0.
\* waiting tells that the caller of op is inside k_sem_take, given that a
\* sem_post ended its wait.
NoWait == [op |-> "none", sec |-> 0, nsec |-> 0, now |-> 0, before |-> 0, count |-> 0,
           ret |-> 0, errno |-> NoErrno, taken |-> FALSE, timeout |-> 0,
           waiting |-> FALSE, given |-> FALSE]

\* struct _nsem in zero-initialised static storage.
ZeroSlot == [sem |-> 0, name |-> NullName, refs |-> 0, to_free |-> FALSE, in_use |-> FALSE]

----------------------------------------------------------------------------
\* Helpers of semaphore.c, as functions of the table.

\* The string pointer p addresses now.
Str(p) == IF p = Array THEN buf ELSE p

\* What reading through NULL does: address 0 is readable and holds a string that
\* compares equal or one that differs, or the read traps.
NullCmp == {"equal", "differ", "trap"}
\* The outcomes of NullCmp in which the comparison returns.
Reads == {"equal", "differ"}

\* strncmp(name, it->name, PATH_MAX) on what the two pointers address now.
\* it->name of a never-used slot is NULL and the comparison is undefined;
\* nullcmp is what it does then.
NameEq(name, slotname, nullcmp) ==
    IF slotname = NullName THEN nullcmp
    ELSE IF Str(name) = Str(slotname) THEN "equal" ELSE "differ"

\* What find_by_name_nsem yields when a comparison in it trapped.
Trap == -1

\* The first slot in table order whose name matches and that is in use; 0 (NULL)
\* if none; Trap if a comparison made on the way (the loop stops at the match)
\* trapped.  The comparison is made before in_use is looked at.
find_by_name_nsem(tab, name, nullcmp) ==
    LET S == {i \in Slots : NameEq(name, tab[i].name, nullcmp) = "equal" /\ tab[i].in_use}
        T == {i \in Slots : NameEq(name, tab[i].name, nullcmp) = "trap"}
    IN  IF \E i \in T : S = {} \/ i < Min(S) THEN Trap
        ELSE IF S = {} THEN 0 ELSE Min(S)

\* The slot in use whose embedded sem is at address sem; 0 (NULL) if none.
find_by_addr_nsem(tab, sem) ==
    LET S == {i \in Slots : i = sem /\ tab[i].in_use}
    IN  IF S = {} THEN 0 ELSE Min(S)

\* --x on a u32, read as int.
DecU32(x) == IF x = INT_MIN THEN INT_MAX ELSE x - 1

\* --nsem->refs: the table after the decrement (the value returned is the new refs).
dereference_nsem(tab, nsem) ==
    [tab EXCEPT ![nsem].refs = DecU32(tab[nsem].refs)]

\* alloc_nsem without semp->to_free = false.
alloc_nsem_keeps_to_free(tab, name) ==
    LET S == {i \in Slots : ~tab[i].in_use}
    IN  IF S = {} THEN [tab |-> tab, nsem |-> 0]
        ELSE LET i == Min(S)
             IN  [tab |-> [tab EXCEPT ![i].in_use = TRUE, ![i].name = name, ![i].refs = 1],
                  nsem |-> i]

\* The first slot not in use, claimed for name (the pointer is stored, not the
\* string); nsem is 0 (NULL) if every slot is in use.
alloc_nsem(tab, name) ==
    LET S == {i \in Slots : ~tab[i].in_use}
    IN  IF S = {} THEN [tab |-> tab, nsem |-> 0]
        ELSE LET i == Min(S)
             IN  [tab |-> [tab EXCEPT ![i].in_use = TRUE, ![i].to_free = FALSE,
                                        ![i].name = name, ![i].refs = 1],
                  nsem |-> i]

\* k_sem_init(sem, value, SEM_VALUE_MAX): the count becomes value.
sem_init(tab, nsem, value) == [tab EXCEPT ![nsem].sem = value]

\* sem_destroy: EBUSY when the count is not zero, and nothing else.
sem_destroy(tab, nsem) ==
    IF tab[nsem].sem # 0 THEN [ret |-> -1, errno |-> EBUSY]
    ELSE [ret |-> 0, errno |-> NoErrno]

\* free_nsem: clears in_use; sem_destroy's result is dropped, its errno is not.
free_nsem(tab, nsem) ==
    [tab |-> [tab EXCEPT ![nsem].in_use = FALSE], errno |-> sem_destroy(tab, nsem).errno]

----------------------------------------------------------------------------
\* The calls on a semaphore's count, as functions of the count.

\* k_sem_take(sem, timeout) with a timeout in ms: takes the semaphore when its
\* count is not zero; otherwise returns -EBUSY at once when the timeout is not
\* positive, and else waits: waits tells so, and rc is then what it returns
\* when the wait runs out with nothing given.
k_sem_take(count, timeout) ==
    IF count > 0 THEN [count |-> count - 1, rc |-> "0", waits |-> FALSE]
    ELSE IF timeout <= 0 THEN [count |-> count, rc |-> "-EBUSY", waits |-> FALSE]
    ELSE [count |-> count, rc |-> "-EAGAIN", waits |-> TRUE]

\* sem_post: k_sem_give adds one to the count (below the limit SEM_VALUE_MAX,
\* and with no caller waiting).
sem_post(count) == [count |-> count + 1, ret |-> 0, errno |-> NoErrno]

\* sem_wait: k_sem_take(sem, K_FOREVER).  It takes the semaphore when the count
\* is not zero and else waits until it is given; it returns 0.
sem_wait(count) ==
    IF count > 0 THEN [count |-> count - 1, ret |-> 0, errno |-> NoErrno, waits |-> FALSE]
    ELSE [count |-> count, ret |-> 0, errno |-> NoErrno, waits |-> TRUE]

\* sem_trywait: k_sem_take(sem, K_NO_WAIT), -EBUSY turned into EAGAIN.
sem_trywait(count) ==
    LET take == k_sem_take(count, 0)
    IN  [count |-> take.count,
         ret |-> IF take.rc = "-EBUSY" THEN -1 ELSE 0,
         errno |-> IF take.rc = "-EBUSY" THEN EAGAIN ELSE NoErrno]

\* What sem_timedwait returns when k_sem_take returned rc: only -EBUSY is
\* turned into ETIMEDOUT.
timedwait_return(rc) ==
    [ret |-> IF rc = "-EBUSY" THEN -1 ELSE 0,
     errno |-> IF rc = "-EBUSY" THEN ETIMEDOUT ELSE NoErrno]

\* One of sem_init, sem_post, sem_wait and sem_trywait on a count.
semcall(op, count, value) ==
    IF op = "init" THEN [count |-> value, ret |-> 0, errno |-> NoErrno]
    ELSE IF op = "post" THEN sem_post(count)
    ELSE IF op = "wait" THEN [count |-> sem_wait(count).count, ret |-> 0, errno |-> NoErrno]
    ELSE sem_trywait(count)

\* The calls on a count that are followed: a post below MaxCount, and a wait
\* that does not have to wait.
CanCall(op, count) ==
    /\ op = "post" => count < MaxCount
    /\ op = "wait" => ~sem_wait(count).waits

----------------------------------------------------------------------------
\* The registry transactions, as functions of the registry and the arguments.
\* Each yields the table and counter it leaves, the value it returns and the
\* errno it sets (NoErrno when it sets none: the caller clears errno before
\* each call, which is how errno is read after a call).  Where the lookup
\* trapped, errno is SIGSEGV: the call changed nothing and does not return.

\* open_lookup with the capacity test as sem_named_n > SEM_NAMED_N_LIMIT.
open_lookup_above(tab, n, name, oflag, nullcmp) ==
    IF n > SEM_NAMED_N_LIMIT THEN [err |-> ENFILE, nsem |-> 0]
    ELSE LET nsem == find_by_name_nsem(tab, name, nullcmp)
         IN  IF nsem = Trap THEN [err |-> SIGSEGV, nsem |-> 0]
             ELSE IF nsem # 0
             THEN [err |-> IF HasFlag(oflag, O_EXCL) THEN EEXIST ELSE NoErrno, nsem |-> nsem]
             ELSE [err |-> IF ~HasFlag(oflag, O_CREAT) THEN ENOENT ELSE NoErrno, nsem |-> 0]

\* sem_open up to the decision: the capacity test, the lookup and the flag tests.
\* err is the errno of the failing branch taken (NoErrno if none), nsem the slot found.
open_lookup(tab, n, name, oflag, nullcmp) ==
    IF n = SEM_NAMED_N_LIMIT THEN [err |-> ENFILE, nsem |-> 0]
    ELSE LET nsem == find_by_name_nsem(tab, name, nullcmp)
         IN  IF nsem = Trap THEN [err |-> SIGSEGV, nsem |-> 0]
             ELSE IF nsem # 0
             THEN [err |-> IF HasFlag(oflag, O_EXCL) THEN EEXIST ELSE NoErrno, nsem |-> nsem]
             ELSE [err |-> IF ~HasFlag(oflag, O_CREAT) THEN ENOENT ELSE NoErrno, nsem |-> 0]

\* The creating branch of sem_open: alloc_nsem, sem_init, sem_named_n++.
\* With no slot free nsem is NULL: sem_init then writes through a null pointer
\* and &nsem->sem is NULL; the table is left as it was.
open_create(tab, n, name, value) ==
    LET a == alloc_nsem(tab, name)
    IN  [tab |-> IF a.nsem = 0 THEN a.tab ELSE sem_init(a.tab, a.nsem, value),
         n |-> n + 1, nsem |-> a.nsem]

\* sem_open with sem_named_n++ moved ahead of the tests.
sem_open_counts_first(tab, n, name, oflag, value, nullcmp) ==
    LET l == open_lookup(tab, n, name, oflag, nullcmp)
    IN  IF l.err # NoErrno
        THEN [tab |-> tab, n |-> n + 1, ret |-> SEM_FAILED, errno |-> l.err, created |-> FALSE]
        ELSE IF l.nsem # 0
        THEN [tab |-> tab, n |-> n + 1, ret |-> l.nsem, errno |-> NoErrno, created |-> FALSE]
        ELSE LET c == open_create(tab, n, name, value)
             IN  [tab |-> c.tab, n |-> c.n, ret |-> c.nsem, errno |-> NoErrno, created |-> TRUE]

sem_open(tab, n, name, oflag, value, nullcmp) ==
    LET l == open_lookup(tab, n, name, oflag, nullcmp)
    IN  IF l.err # NoErrno
        THEN [tab |-> tab, n |-> n, ret |-> SEM_FAILED, errno |-> l.err, created |-> FALSE]
        ELSE IF l.nsem # 0
        THEN [tab |-> tab, n |-> n, ret |-> l.nsem, errno |-> NoErrno, created |-> FALSE]
        ELSE LET c == open_create(tab, n, name, value)
             IN  [tab |-> c.tab, n |-> c.n, ret |-> c.nsem, errno |-> NoErrno, created |-> TRUE]

\* The body of sem_close once the slot is found: the decrement, and the
\* teardown when it reaches zero with to_free set.
close_release(tab, nsem) ==
    LET t == dereference_nsem(tab, nsem)
    IN  IF t[nsem].refs = 0 /\ t[nsem].to_free
        THEN LET f == free_nsem(t, nsem)
             IN  [tab |-> f.tab, errno |-> f.errno]
        ELSE [tab |-> t, errno |-> NoErrno]

sem_close(tab, n, sem) ==
    LET nsem == find_by_addr_nsem(tab, sem)
    IN  IF nsem = 0
        THEN [tab |-> tab, n |-> n, ret |-> -1, errno |-> EINVAL, nsem |-> 0]
        ELSE LET c == close_release(tab, nsem)
             IN  [tab |-> c.tab, n |-> n, ret |-> 0, errno |-> c.errno, nsem |-> nsem]

\* unlink_release without the teardown: to_free is set and the count decremented.
unlink_release_marks(tab, nsem) ==
    [tab |-> dereference_nsem([tab EXCEPT ![nsem].to_free = TRUE], nsem), errno |-> NoErrno]

\* The body of sem_unlink once the slot is found: to_free is set, the count
\* decremented, and the slot torn down when the decrement reaches zero.
unlink_release(tab, nsem) ==
    LET t == dereference_nsem([tab EXCEPT ![nsem].to_free = TRUE], nsem)
    IN  IF t[nsem].refs = 0
        THEN LET f == free_nsem(t, nsem)
             IN  [tab |-> f.tab, errno |-> f.errno]
        ELSE [tab |-> t, errno |-> NoErrno]

sem_unlink(tab, n, name, nullcmp) ==
    LET nsem == find_by_name_nsem(tab, name, nullcmp)
    IN  IF nsem = Trap
        THEN [tab |-> tab, n |-> n, ret |-> -1, errno |-> SIGSEGV, nsem |-> 0]
        ELSE IF nsem = 0
        THEN [tab |-> tab, n |-> n, ret |-> -1, errno |-> ENOENT, nsem |-> 0]
        ELSE LET u == unlink_release(tab, nsem)
             IN  [tab |-> u.tab, n |-> n, ret |-> 0, errno |-> u.errno, nsem |-> nsem]

----------------------------------------------------------------------------
\* The calls, one action each: a whole call, from entry to return.

Init ==
    /\ sem_named = [i \in Slots |-> ZeroSlot]
    /\ sem_named_n = 0
    /\ buf = Array
    /\ errno = NoErrno
    /\ call = "none"
    /\ ret = 0
    /\ held = [i \in Slots |-> 0]
    /\ unlinked = [i \in Slots |-> FALSE]
    /\ slot = 0
    /\ hcreate = [s \in Strings |-> SEM_FAILED]
    /\ ncalls = 0
    /\ irq = 0
    /\ pc = [t \in Threads |-> "idle"]
    /\ targ = [t \in Threads |-> NoArg]
    /\ tloc = [t \in Threads |-> NoLoc]
    /\ tret = [t \in Threads |-> NoRet]
    /\ last = NoLast
    /\ tw = NoWait

\* One more call is made while fewer than MaxCalls have been and none has trapped.
Counted == call # "trap" /\ ncalls < MaxCalls /\ ncalls' = ncalls + 1 /\ tw' = tw

\* The call read through NULL and trapped: nothing is changed and nothing returns.
Traps ==
    /\ call' = "trap" /\ errno' = NoErrno /\ ret' = 0 /\ slot' = 0
    /\ UNCHANGED <<sem_named, sem_named_n, held, unlinked, hcreate>>

SemOpen ==
    /\ Counted
    /\ UNCHANGED <<tvars, buf>>
    /\ \E name \in Names, oflag \in Oflags, nullcmp \in NullCmp :
      \E value \in (IF HasFlag(oflag, O_CREAT) THEN Values ELSE {0}) :
        LET r == sem_open(sem_named, sem_named_n, name, oflag, value, nullcmp)
            h == r.ret
        IN  IF r.errno = SIGSEGV THEN Traps
            ELSE
            /\ sem_named' = r.tab
            /\ sem_named_n' = r.n
            /\ errno' = r.errno
            /\ ret' = r.ret
            /\ call' = "open"
            /\ held' = IF h = SEM_FAILED THEN held
                       ELSE IF r.created THEN [held EXCEPT ![h] = 1]
                       ELSE [held EXCEPT ![h] = @ + 1]
            /\ unlinked' = IF h # SEM_FAILED /\ r.created
                           THEN [unlinked EXCEPT ![h] = FALSE] ELSE unlinked
            /\ hcreate' = IF h # SEM_FAILED /\ r.created
                          THEN [hcreate EXCEPT ![Str(name)] = h] ELSE hcreate
            /\ slot' = h

SemClose ==
    /\ Counted
    /\ UNCHANGED <<tvars, buf>>
    /\ \E sem \in SemPtrs :
        LET r == sem_close(sem_named, sem_named_n, sem)
        IN  /\ sem_named' = r.tab
            /\ sem_named_n' = r.n
            /\ errno' = r.errno
            /\ ret' = r.ret
            /\ call' = "close"
            /\ slot' = r.nsem
            /\ held' = IF r.ret = 0 THEN [held EXCEPT ![r.nsem] = @ - 1] ELSE held
            /\ UNCHANGED <<unlinked, hcreate>>

SemUnlink ==
    /\ Counted
    /\ UNCHANGED <<tvars, buf>>
    /\ \E name \in Names, nullcmp \in NullCmp :
        LET r == sem_unlink(sem_named, sem_named_n, name, nullcmp)
        IN  IF r.errno = SIGSEGV THEN Traps
            ELSE
            /\ sem_named' = r.tab
            /\ sem_named_n' = r.n
            /\ errno' = r.errno
            /\ ret' = r.ret
            /\ call' = "unlink"
            /\ slot' = r.nsem
            /\ unlinked' = IF r.ret = 0 THEN [unlinked EXCEPT ![r.nsem] = TRUE] ELSE unlinked
            /\ UNCHANGED <<held, hcreate>>

\* The handles sem_open has returned: the addresses of the slots ever claimed.
Handles(tab) == {i \in Slots : tab[i].name # NullName}

\* sem_init, sem_post, sem_wait or sem_trywait on a handle sem_open returned:
\* none of them looks at the table, only at the k_sem the handle addresses.
SemCallOn(op) ==
    /\ Counted
    /\ UNCHANGED <<tvars, buf, sem_named_n, held, unlinked, hcreate>>
    /\ \E h \in Handles(sem_named), value \in (IF op = "init" THEN Values ELSE {0}) :
        LET r == semcall(op, sem_named[h].sem, value)
        IN  /\ CanCall(op, sem_named[h].sem)
            /\ sem_named' = [sem_named EXCEPT ![h].sem = r.count]
            /\ errno' = r.errno
            /\ ret' = r.ret
            /\ call' = op
            /\ slot' = h

SemInitSlot == SemCallOn("init")
SemPostSlot == SemCallOn("post")
SemWaitSlot == SemCallOn("wait")
SemTrywaitSlot == SemCallOn("trywait")

\* The caller writes another string into its array, between two calls.
Rewrite ==
    /\ Counted
    /\ UNCHANGED <<tvars, sem_named, sem_named_n, held, unlinked, hcreate>>
    /\ \E s \in Strings \ {buf} : buf' = s
    /\ call' = "rewrite" /\ errno' = NoErrno /\ ret' = 0 /\ slot' = 0

Next ==
    \/ SemOpen \/ SemClose \/ SemUnlink
    \/ SemInitSlot \/ SemPostSlot \/ SemWaitSlot \/ SemTrywaitSlot
    \/ Rewrite

Spec == Init /\ [][Next]_vars

----------------------------------------------------------------------------
\* The same calls made by preemptible threads, the registry transactions a
\* statement group at a time: irq_lock; the tests and the lookup; the update;
\* irq_unlock and return.

\* irq_lock keeps every other thread off the processor until irq_unlock.
CanRun(t) == irq = 0 \/ irq = t

\* The registry calls a thread can make.
Calls ==
    {[op |-> "open", name |-> name, oflag |-> oflag, value |-> value, sem |-> 0] :
        name \in Names, oflag \in Oflags, value \in Values}
    \cup {[op |-> "close", name |-> NullName, oflag |-> 0, value |-> 0, sem |-> sem] :
        sem \in SemPtrs}
    \cup {[op |-> "unlink", name |-> name, oflag |-> 0, value |-> 0, sem |-> 0] :
        name \in Names}

\* TCall without the irq_lock: the thread enters with interrupts left enabled.
TCall_unlocked(t) ==
    /\ pc[t] = "idle" /\ CanRun(t)
    /\ Counted
    /\ \E a \in Calls :
         /\ (a.op = "open" /\ ~HasFlag(a.oflag, O_CREAT)) => a.value = 0
         /\ targ' = [targ EXCEPT ![t] = a]
    /\ irq' = irq
    /\ pc' = [pc EXCEPT ![t] = "locked"]
    /\ UNCHANGED <<sem_named, sem_named_n, buf, hvars, tloc, tret, last>>

\* A thread enters sem_open, sem_close or sem_unlink: key = irq_lock().
\* (No value is passed, and none read, without O_CREAT.)
TCall(t) ==
    /\ pc[t] = "idle" /\ CanRun(t)
    /\ Counted
    /\ \E a \in Calls :
         /\ (a.op = "open" /\ ~HasFlag(a.oflag, O_CREAT)) => a.value = 0
         /\ targ' = [targ EXCEPT ![t] = a]
    /\ irq' = t
    /\ pc' = [pc EXCEPT ![t] = "locked"]
    /\ UNCHANGED <<sem_named, sem_named_n, buf, hvars, tloc, tret, last>>

\* The tests and the lookup of the call, up to the branch taken.
lookup(tab, n, a, nullcmp) ==
    IF a.op = "open" THEN open_lookup(tab, n, a.name, a.oflag, nullcmp)
    ELSE IF a.op = "close"
    THEN LET nsem == find_by_addr_nsem(tab, a.sem)
         IN  [err |-> IF nsem = 0 THEN EINVAL ELSE NoErrno, nsem |-> nsem]
    ELSE LET nsem == find_by_name_nsem(tab, a.name, nullcmp)
         IN  IF nsem = Trap THEN [err |-> SIGSEGV, nsem |-> 0]
             ELSE [err |-> IF nsem = 0 THEN ENOENT ELSE NoErrno, nsem |-> nsem]

\* Where the lookup traps the thread goes no further, with the lock held.
TLookup(t) ==
    /\ pc[t] = "locked" /\ CanRun(t)
    /\ \E nullcmp \in NullCmp :
         LET l == lookup(sem_named, sem_named_n, targ[t], nullcmp)
         IN  /\ tloc' = [tloc EXCEPT ![t] = l]
             /\ pc' = [pc EXCEPT ![t] = IF l.err = SIGSEGV THEN "trapped" ELSE "found"]
    /\ UNCHANGED <<sem_named, sem_named_n, buf, ncalls, hvars, irq, targ, tret, last, tw>>

\* The rest of the call from its local nsem: the error exit, or the update.
commit(tab, n, a, l) ==
    IF l.err # NoErrno
    THEN [tab |-> tab, n |-> n, ret |-> IF a.op = "open" THEN SEM_FAILED ELSE -1,
          errno |-> l.err]
    ELSE IF a.op = "open"
    THEN IF l.nsem # 0
         THEN [tab |-> tab, n |-> n, ret |-> l.nsem, errno |-> NoErrno]
         ELSE LET c == open_create(tab, n, a.name, a.value)
              IN  [tab |-> c.tab, n |-> c.n, ret |-> c.nsem, errno |-> NoErrno]
    ELSE IF a.op = "close"
    THEN LET c == close_release(tab, l.nsem)
         IN  [tab |-> c.tab, n |-> n, ret |-> 0, errno |-> c.errno]
    ELSE LET u == unlink_release(tab, l.nsem)
         IN  [tab |-> u.tab, n |-> n, ret |-> 0, errno |-> u.errno]

TCommit(t) ==
    /\ pc[t] = "found" /\ CanRun(t)
    /\ LET r == commit(sem_named, sem_named_n, targ[t], tloc[t])
       IN  /\ sem_named' = r.tab
           /\ sem_named_n' = r.n
           /\ tret' = [tret EXCEPT ![t] = [ret |-> r.ret, errno |-> r.errno]]
    /\ pc' = [pc EXCEPT ![t] = "unlock"]
    /\ UNCHANGED <<buf, ncalls, hvars, irq, targ, tloc, last, tw>>

\* TReturn with the error exit returning without irq_unlock.
TReturn_error_locked(t) ==
    /\ pc[t] = "unlock" /\ CanRun(t)
    /\ irq' = IF irq = t /\ tret[t].errno = NoErrno THEN 0 ELSE irq
    /\ pc' = [pc EXCEPT ![t] = "idle"]
    /\ targ' = [targ EXCEPT ![t] = NoArg]
    /\ tloc' = [tloc EXCEPT ![t] = NoLoc]
    /\ tret' = [tret EXCEPT ![t] = NoRet]
    /\ last' = IF /\ targ[t].op = "open" /\ targ[t].oflag = O_CREAT + O_EXCL
                  /\ tret[t].ret # SEM_FAILED
               THEN [t |-> t, name |-> targ[t].name]
               ELSE NoLast
    /\ UNCHANGED <<sem_named, sem_named_n, buf, ncalls, hvars, tw>>

\* irq_unlock(key) and return: the thread's locals go with its frame.
TReturn(t) ==
    /\ pc[t] = "unlock" /\ CanRun(t)
    /\ irq' = IF irq = t THEN 0 ELSE irq
    /\ pc' = [pc EXCEPT ![t] = "idle"]
    /\ targ' = [targ EXCEPT ![t] = NoArg]
    /\ tloc' = [tloc EXCEPT ![t] = NoLoc]
    /\ tret' = [tret EXCEPT ![t] = NoRet]
    /\ last' = IF /\ targ[t].op = "open" /\ targ[t].oflag = O_CREAT + O_EXCL
                  /\ tret[t].ret # SEM_FAILED
               THEN [t |-> t, name |-> targ[t].name]
               ELSE NoLast
    /\ UNCHANGED <<sem_named, sem_named_n, buf, ncalls, hvars, tw>>

\* A thread outside the registry calls sem_init, sem_post, sem_wait or
\* sem_trywait on a handle: one step, these take no lock of the registry.
TSem(t) ==
    /\ pc[t] = "idle" /\ CanRun(t)
    /\ Counted
    /\ \E op \in {"init", "post", "wait", "trywait"}, h \in Handles(sem_named) :
       \E value \in (IF op = "init" THEN Values ELSE {0}) :
         /\ CanCall(op, sem_named[h].sem)
         /\ sem_named' = [sem_named EXCEPT ![h].sem = semcall(op, @, value).count]
    /\ last' = NoLast
    /\ UNCHANGED <<sem_named_n, buf, hvars, irq, pc, targ, tloc, tret>>

\* A thread outside the registry writes another string into the array.
TRewrite(t) ==
    /\ pc[t] = "idle" /\ CanRun(t)
    /\ Counted
    /\ \E s \in Strings \ {buf} : buf' = s
    /\ last' = NoLast
    /\ UNCHANGED <<sem_named, sem_named_n, hvars, irq, pc, targ, tloc, tret>>

NextThreads ==
    \E t \in Threads :
        \/ TCall(t) \/ TLookup(t) \/ TCommit(t) \/ TReturn(t)
        \/ TSem(t) \/ TRewrite(t)

SpecThreads == Init /\ [][NextThreads]_vars

----------------------------------------------------------------------------
\* The calls on the count, on a semaphore that is not in the table.  A call
\* that finds the count at 0 waits inside k_sem_take; other threads run
\* meanwhile, and a sem_post of one of them gives the semaphore to the waiter.

\* tv_sec, tv_nsec (both s32_t) and readings of the millisecond clock.
Secs == {-1, 0, 1, 2147483, 2147484, INT_MAX}
Nsecs == {-1, 0, 999999, 1000000, 999999999, 1000000000, 1000000001, 2000000000}
Nows == {0, 1, 1500, 2147483000}

\* An s64_t is kept as [h, l], the number h * 2^16 + l with 0 <= l < 2^16.
Limb == 2^16
Wide(x) == [h |-> x \div Limb, l |-> x % Limb]
Carry(h, l) == [h |-> h + (l \div Limb), l |-> l % Limb]
WidePlus(a, b) == Carry(a.h + b.h, a.l + b.l)
WideMinus(a, b) == Carry(a.h - b.h, a.l - b.l)
\* x * 1000 without loss, for an s32_t x.
WideTimes1000(x) == Carry((x \div Limb) * 1000, (x % Limb) * 1000)
WidePositive(a) == a.h > 0 \/ (a.h = 0 /\ a.l > 0)

\* (s32_t)w: the low 32 bits of w, read in two's complement.
ToS32(w) == (((w.h + Limb \div 2) % Limb) - Limb \div 2) * Limb + w.l

\* sem_timedwait on a semaphore of count count, with abs_timeout = {sec, nsec}
\* and the clock at now ms.  tv_sec * 1000 is a product of ints: where it
\* overflows, wide tells whether the build keeps all of it in the s64_t wakeup
\* or only its low 32 bits.  taken tells whether k_sem_take was called, timeout
\* with what, and waits whether the call waits in it; ret and errno are what
\* the call returns, after the wait has run out when it waits.
sem_timedwait(count, sec, nsec, now, wide) ==
    IF nsec < 0 \/ nsec > 1000000000
    THEN [count |-> count, ret |-> -1, errno |-> EINVAL, taken |-> FALSE, timeout |-> 0,
          waits |-> FALSE]
    ELSE LET product == WideTimes1000(sec)
             wakeup == WidePlus(IF wide THEN product ELSE Wide(ToS32(product)),
                                Wide(nsec \div 1000000))
             timeout == ToS32(WideMinus(wakeup, Wide(now)))
             take == k_sem_take(count, timeout)
         IN  [count |-> take.count,
              ret |-> timedwait_return(take.rc).ret,
              errno |-> timedwait_return(take.rc).errno,
              taken |-> TRUE, timeout |-> timeout, waits |-> take.waits]

\* sem_init(&sem, 0, value) on the semaphore outside the table.
SemInit ==
    /\ ~tw.waiting
    /\ \E value \in Values : tw' = [NoWait EXCEPT !.op = "init", !.count = value]
    /\ UNCHANGED <<sem_named, sem_named_n, buf, ncalls, hvars, tvars>>

\* sem_post by a thread that is not the one waiting: the count goes up by one,
\* or, with a caller waiting, the semaphore is given to it and its k_sem_take
\* returns 0.
SemPost ==
    /\ IF tw.waiting
       THEN tw' = [tw EXCEPT !.waiting = FALSE, !.given = TRUE,
                             !.ret = IF tw.op = "timedwait" THEN timedwait_return("0").ret
                                     ELSE 0,
                             !.errno = IF tw.op = "timedwait"
                                       THEN timedwait_return("0").errno ELSE NoErrno]
       ELSE /\ CanCall("post", tw.count)
            /\ tw' = [NoWait EXCEPT !.op = "post", !.before = tw.count,
                                    !.count = sem_post(tw.count).count]
    /\ UNCHANGED <<sem_named, sem_named_n, buf, ncalls, hvars, tvars>>

\* sem_wait: it returns at once with the semaphore taken, or waits for a post.
SemWait ==
    /\ ~tw.waiting
    /\ LET r == sem_wait(tw.count)
       IN  tw' = [NoWait EXCEPT !.op = "wait", !.before = tw.count, !.count = r.count,
                                !.taken = TRUE, !.waiting = r.waits]
    /\ UNCHANGED <<sem_named, sem_named_n, buf, ncalls, hvars, tvars>>

SemTrywait ==
    /\ ~tw.waiting
    /\ LET r == sem_trywait(tw.count)
       IN  tw' = [NoWait EXCEPT !.op = "trywait", !.before = tw.count, !.count = r.count,
                                !.ret = r.ret, !.errno = r.errno, !.taken = TRUE]
    /\ UNCHANGED <<sem_named, sem_named_n, buf, ncalls, hvars, tvars>>

\* sem_timedwait up to its return, or up to the wait inside k_sem_take when the
\* count is 0 and the timeout positive (ret and errno are set when the wait ends).
SemTimedwait ==
    /\ ~tw.waiting
    /\ \E sec \in Secs, nsec \in Nsecs, now \in Nows, wide \in BOOLEAN :
          LET r == sem_timedwait(tw.count, sec, nsec, now, wide)
          IN  tw' = [op |-> "timedwait", sec |-> sec, nsec |-> nsec, now |-> now,
                     before |-> tw.count, count |-> r.count,
                     ret |-> IF r.waits THEN 0 ELSE r.ret,
                     errno |-> IF r.waits THEN NoErrno ELSE r.errno,
                     taken |-> r.taken, timeout |-> r.timeout,
                     waiting |-> r.waits, given |-> FALSE]
    /\ UNCHANGED <<sem_named, sem_named_n, buf, ncalls, hvars, tvars>>

\* The wait of a sem_timedwait runs out with nothing given: k_sem_take returns
\* -EAGAIN and the call returns.
WaitRunsOut ==
    /\ tw.waiting /\ tw.op = "timedwait"
    /\ tw' = [tw EXCEPT !.waiting = FALSE, !.ret = timedwait_return("-EAGAIN").ret,
                        !.errno = timedwait_return("-EAGAIN").errno]
    /\ UNCHANGED <<sem_named, sem_named_n, buf, ncalls, hvars, tvars>>

NextTimed == SemInit \/ SemPost \/ SemWait \/ SemTrywait \/ SemTimedwait \/ WaitRunsOut

SpecTimed == Init /\ [][NextTimed]_vars

----------------------------------------------------------------------------
\* Vocabulary of the properties.

\* The slots in use that hold name: whose stored pointer addresses the string
\* that name addresses.
LiveSlots(tab, name) ==
    {i \in Slots : tab[i].in_use /\ tab[i].name # NullName /\ Str(tab[i].name) = Str(name)}
IsLive(tab, name) == LiveSlots(tab, name) # {}
NumLive(tab) == Cardinality({i \in Slots : tab[i].in_use})
\* A slot some creating open has claimed at least once.
EverCreated(i) == sem_named[i].name # NullName

----------------------------------------------------------------------------
\* C1 (reference counting): a slot created and not unlinked since, on which N
\* opens and M <= N closes have succeeded, is in use and its refs equals N - M.
C1_RefCounting ==
    \A i \in Slots :
        (EverCreated(i) /\ ~unlinked[i] /\ held[i] >= 0)
            => (sem_named[i].in_use /\ sem_named[i].refs = held[i])

\* C2 (deferred deletion): an unlink of a slot with a handle outstanding leaves it
\* in use and its handles closable; the closes that follow tear it down exactly
\* when the last handle goes, and the name is then not found by an open without O_CREAT.
C2_DeferredDeletion ==
    [][\A i \in Slots :
        /\ (call' = "unlink" /\ ret' = 0 /\ slot' = i /\ held[i] >= 1)
              => (sem_named'[i].in_use /\ sem_close(sem_named', sem_named_n', i).ret = 0)
        /\ (call' = "close" /\ ret' = 0 /\ slot' = i /\ unlinked[i] /\ held[i] > 1)
              => sem_named'[i].in_use
        /\ (call' = "close" /\ ret' = 0 /\ slot' = i /\ unlinked[i] /\ held[i] = 1)
              => /\ ~sem_named'[i].in_use
                 /\ \A nullcmp \in Reads :
                      LET r == sem_open(sem_named', sem_named_n', sem_named[i].name,
                                        0, 0, nullcmp)
                      IN  r.ret = SEM_FAILED /\ r.errno = ENOENT
      ]_vars

\* C3 (uniqueness): no two slots in use hold the same name.
C3_Uniqueness ==
    \A i, j \in Slots :
        (i # j /\ sem_named[i].in_use /\ sem_named[j].in_use)
            => Str(sem_named[i].name) # Str(sem_named[j].name)

\* C4 (exclusivity): in every state, sem_open with O_CREAT | O_EXCL on a name that
\* is live fails with EEXIST and returns SEM_FAILED.
C4_Exclusivity ==
    \A name \in Names, value \in Values, nullcmp \in Reads :
        IsLive(sem_named, name) =>
            LET r == sem_open(sem_named, sem_named_n, name, O_CREAT + O_EXCL, value, nullcmp)
            IN  r.ret = SEM_FAILED /\ r.errno = EEXIST

\* C5 (capacity): with every slot in use, a creating open of one more name fails
\* with ENFILE, while an open without O_EXCL of a live name returns its handle.
C5_Capacity ==
    (NumLive(sem_named) = SEM_NAMED_N_LIMIT) =>
        \A name \in Names, value \in Values, nullcmp \in Reads :
            /\ ~IsLive(sem_named, name) =>
                 LET r == sem_open(sem_named, sem_named_n, name, O_CREAT, value, nullcmp)
                 IN  r.ret = SEM_FAILED /\ r.errno = ENFILE
            /\ IsLive(sem_named, name) =>
                 \A oflag \in {0, O_CREAT} :
                     LET r == sem_open(sem_named, sem_named_n, name, oflag, value, nullcmp)
                     IN  r.ret \in LiveSlots(sem_named, name)

\* C6 (slot reuse): with fewer than SEM_NAMED_N_LIMIT slots in use, a creating
\* open of a name that is not live succeeds.
C6_SlotReuse ==
    (NumLive(sem_named) < SEM_NAMED_N_LIMIT) =>
        \A name \in Names, value \in Values, nullcmp \in Reads :
            ~IsLive(sem_named, name) =>
                sem_open(sem_named, sem_named_n, name, O_CREAT, value, nullcmp).ret
                    # SEM_FAILED

\* C7 (unlink with no handle outstanding): a successful unlink of a slot whose refs
\* is 0, with every handle closed and no unlink before, leaves the slot not in use
\* and its name not found.
C7_UnlinkAtZero ==
    [][\A i \in Slots :
        (call' = "unlink" /\ ret' = 0 /\ slot' = i
            /\ sem_named[i].refs = 0 /\ held[i] = 0 /\ ~unlinked[i])
          => /\ ~sem_named'[i].in_use
             /\ ~IsLive(sem_named', sem_named[i].name)
      ]_vars

\* C8 (handle identity): a live name is held by the slot whose handle its creating
\* open returned, and every successful open of it returns that handle and leaves
\* the set of slots in use and the counter as they were.
C8_HandleIdentity ==
    \A name \in Names :
        \A i \in LiveSlots(sem_named, name) :
            /\ hcreate[Str(name)] = i
            /\ \A oflag \in Oflags, value \in Values, nullcmp \in Reads :
                 LET r == sem_open(sem_named, sem_named_n, name, oflag, value, nullcmp)
                 IN  r.ret # SEM_FAILED =>
                        /\ r.ret = hcreate[Str(name)]
                        /\ r.n = sem_named_n
                        /\ \A j \in Slots : r.tab[j].in_use = sem_named[j].in_use

\* A call that failed: an open that returned SEM_FAILED, a close or unlink that returned -1.
Failed(c, r) == (c = "open" /\ r = SEM_FAILED) \/ (c \in {"close", "unlink"} /\ r = -1)

\* C9 (error atomicity): a call that returns failure leaves every slot and the
\* used-slot counter as they were.
C9_ErrorAtomicity ==
    [][Failed(call', ret') => (sem_named' = sem_named /\ sem_named_n' = sem_named_n)]_vars

\* A call has just failed with ENFILE on a table that holds a slot in use with a
\* non-zero count and a slot torn down after an unlink.
C9_Witness ==
    /\ Failed(call, ret)
    /\ errno = ENFILE
    /\ \E i \in Slots : sem_named[i].in_use /\ sem_named[i].sem # 0 /\ sem_named[i].refs # 0
    /\ \E i \in Slots : ~sem_named[i].in_use /\ sem_named[i].to_free

----------------------------------------------------------------------------
\* The call a of a thread as one transaction on the registry.
Whole(tab, n, a, nullcmp) ==
    IF a.op = "open" THEN sem_open(tab, n, a.name, a.oflag, a.value, nullcmp)
    ELSE IF a.op = "close" THEN sem_close(tab, n, a.sem)
    ELSE sem_unlink(tab, n, a.name, nullcmp)

\* At most one thread is between its irq_lock and its irq_unlock.
OneInside == \A t, u \in Threads : (t # u) => (pc[t] = "idle" \/ pc[u] = "idle")

\* The update a thread makes, and what it is about to return, are those of its
\* whole call applied to the registry as it is when the update is made; a
\* thread whose lookup traps is one whose whole call traps there; and nothing
\* else changes the table while a thread is inside a transaction.
SerialStep ==
    /\ \A t \in Threads :
        /\ (pc[t] = "found" /\ pc'[t] = "unlock") =>
              \E nullcmp \in Reads :
                  LET w == Whole(sem_named, sem_named_n, targ[t], nullcmp)
                  IN  /\ sem_named' = w.tab
                      /\ sem_named_n' = w.n
                      /\ tret'[t] = [ret |-> w.ret, errno |-> w.errno]
        /\ (pc[t] = "locked" /\ pc'[t] = "trapped") =>
              /\ Whole(sem_named, sem_named_n, targ[t], "trap").errno = SIGSEGV
              /\ sem_named' = sem_named /\ sem_named_n' = sem_named_n
    /\ (sem_named' # sem_named \/ buf' # buf) =>
          \/ \E t \in Threads : pc[t] = "found" /\ pc'[t] = "unlock"
          \/ \A t \in Threads : pc[t] = "idle"

\* C10 (linearization): under every interleaving of the threads at most one is
\* inside a registry transaction, and each call takes effect and returns as the
\* whole call does on the registry the calls before it left.
C10_Linearization == []OneInside /\ [][SerialStep]_vars

\* A thread is about to return from an exclusive create that lost to a slot
\* an earlier call created, with a second slot in use as well.
C10_Witness ==
    \E t \in Threads :
        /\ pc[t] = "unlock" /\ irq = t
        /\ targ[t].op = "open" /\ tret[t].errno = EEXIST
        /\ IsLive(sem_named, targ[t].name)
        /\ ncalls >= 3

\* C11 (deadline validation): sem_timedwait with tv_nsec outside [0, 1000000000)
\* returns -1 with EINVAL, does not call k_sem_take and leaves the count as it
\* was; with tv_nsec inside the range it does not set EINVAL.
C11_DeadlineValidation ==
    tw.op = "timedwait" =>
        IF tw.nsec < 0 \/ tw.nsec >= 1000000000
        THEN tw.ret = -1 /\ tw.errno = EINVAL /\ ~tw.taken /\ tw.count = tw.before
        ELSE tw.errno # EINVAL

\* C12 (deadline translation): with tv_nsec in range, the timeout handed to
\* k_sem_take is tv_sec * 1000 + tv_nsec / 1000000 - now; it is positive exactly
\* when the deadline lies after now.
C12_DeadlineTranslation ==
    (tw.op = "timedwait" /\ tw.nsec >= 0 /\ tw.nsec < 1000000000) =>
        LET deadline_ms == WidePlus(WideTimes1000(tw.sec), Wide(tw.nsec \div 1000000))
            relative == WideMinus(deadline_ms, Wide(tw.now))
        IN  /\ tw.taken
            /\ Wide(tw.timeout) = relative
            /\ (tw.timeout > 0) <=> WidePositive(relative)

\* C13 (teardown never fails): whenever a close or an unlink tears a slot down,
\* the count of the slot's semaphore is zero and the call does not set EBUSY.
C13_TeardownNeverFails ==
    [][\A i \in Slots :
          (sem_named[i].in_use /\ ~sem_named'[i].in_use) =>
              (call' \in {"close", "unlink"} /\ sem_named[i].sem = 0 /\ errno' # EBUSY)]_vars

\* C14 (concurrent creates): of two threads that open the same absent name with
\* O_CREAT | O_EXCL, one after the other under the lock, the first returned a
\* handle and the second returns SEM_FAILED with EEXIST; one slot holds the name.
C14_ConcurrentCreates ==
    \A u \in Threads :
        (/\ pc[u] = "unlock"
         /\ targ[u].op = "open" /\ targ[u].oflag = O_CREAT + O_EXCL
         /\ last.t \in Threads \ {u} /\ last.name = targ[u].name) =>
            /\ tret[u].ret = SEM_FAILED /\ tret[u].errno = EEXIST
            /\ Cardinality(LiveSlots(sem_named, targ[u].name)) = 1

\* The kernel semaphore operations the rest of a call makes from its local nsem:
\* k_sem_init by sem_init in the creating branch, k_sem_count_get by sem_destroy
\* in a teardown.
primitives(tab, a, l) ==
    IF l.err # NoErrno THEN {}
    ELSE IF a.op = "open" THEN (IF l.nsem # 0 THEN {} ELSE {"k_sem_init"})
    ELSE LET c == IF a.op = "close" THEN close_release(tab, l.nsem)
                  ELSE unlink_release(tab, l.nsem)
         IN  IF c.tab[l.nsem].in_use THEN {} ELSE {"k_sem_count_get"}

\* A thread inside a call holds the lock, and the kernel operations it makes
\* there do not wait.
GuardHeld ==
    \A t \in Threads :
        /\ pc[t] # "idle" => irq = t
        /\ pc[t] = "found" =>
              primitives(sem_named, targ[t], tloc[t]) \subseteq {"k_sem_init", "k_sem_count_get"}

\* The lock is taken on entry, and released by the step that returns and by no other.
GuardStep ==
    \A t \in Threads :
        /\ (pc[t] = "idle" /\ pc'[t] # "idle") => (irq = 0 /\ irq' = t)
        /\ (pc[t] # "idle" /\ pc'[t] = "idle") => (irq = t /\ irq' = 0)
        /\ (irq = t /\ irq' # t) => (pc[t] = "unlock" /\ pc'[t] = "idle")

\* C15 (guard discipline): every exit of sem_open, sem_close and sem_unlink, failing
\* or not, releases the lock taken on entry exactly once, on returning; while the
\* lock is held only k_sem_init and k_sem_count_get are called, never k_sem_take.
C15_GuardDiscipline == []GuardHeld /\ [][GuardStep]_vars

\* A thread holds the lock on the error exit of its call, after the other thread
\* returned from a create and released it.
C15_Witness ==
    \E t \in Threads :
        /\ pc[t] = "unlock" /\ irq = t /\ tret[t].errno # NoErrno
        /\ last.t \in Threads \ {t}

\* C16 (create postcondition): in every state, a sem_open that creates returns the
\* lowest slot not in use and leaves it in use with refs 1, to_free clear, the name
\* given and the count at the value given; every other slot is as it was.
C16_CreatePostcondition ==
    \A name \in Names, value \in Values, nullcmp \in Reads :
      \A oflag \in {O_CREAT, O_CREAT + O_EXCL} :
        LET r == sem_open(sem_named, sem_named_n, name, oflag, value, nullcmp)
            free == {i \in Slots : ~sem_named[i].in_use}
        IN  (r.created /\ r.ret # SEM_FAILED) =>
                /\ free # {} /\ r.ret = Min(free)
                /\ r.tab[r.ret] = [sem |-> value, name |-> name, refs |-> 1,
                                   to_free |-> FALSE, in_use |-> TRUE]
                /\ \A j \in Slots \ {r.ret} : r.tab[j] = sem_named[j]

\* A create has just taken slot 1 again, after the name it held before was
\* unlinked and torn down: the slot holds the new name and a non-zero count.
C16_Witness ==
    /\ call = "open" /\ ret = 1
    /\ \E a, b \in Strings : a # b /\ hcreate[a] = 1 /\ hcreate[b] = 1 /\ Str(sem_named[1].name) = b
    /\ sem_named[1].in_use /\ ~sem_named[1].to_free
    /\ sem_named[1].refs = 1 /\ sem_named[1].sem = MaxValue

\* C17 (used-slot counter): in every state sem_named_n is the number of slots in
\* use: one more after each create, one less after each teardown.
C17_UsedSlotCounter == sem_named_n = NumLive(sem_named)

\* C18 (no reference-count underflow): no call decrements the refs of a slot in
\* use that is 0; refs never becomes 2^32 - 1 (read as the int -1).
C18_NoUnderflow ==
    [][\A i \in Slots :
          (sem_named[i].in_use /\ sem_named[i].refs = 0) => sem_named'[i].refs # -1]_vars

\* C19 (allocation never fails): in every state sem_named_n is at most
\* SEM_NAMED_N_LIMIT, and a sem_open that passes the capacity test and the flag
\* tests without finding the name gets a slot from alloc_nsem: the handle it
\* returns is not derived from NULL.
C19_AllocationNeverFails ==
    /\ sem_named_n <= SEM_NAMED_N_LIMIT
    /\ \A name \in Names, oflag \in Oflags, nullcmp \in Reads :
          LET l == open_lookup(sem_named, sem_named_n, name, oflag, nullcmp)
          IN  (l.err = NoErrno /\ l.nsem = 0) =>
                  /\ \E i \in Slots : ~sem_named[i].in_use
                  /\ alloc_nsem(sem_named, name).nsem # 0
                  /\ \A value \in Values :
                        open_create(sem_named, sem_named_n, name, value).nsem # 0

\* A create has just taken the last slot: every slot is in use and the counter
\* is at SEM_NAMED_N_LIMIT.
C19_Witness ==
    /\ call = "open" /\ ret = SEM_NAMED_N_LIMIT /\ errno = NoErrno
    /\ sem_named_n = SEM_NAMED_N_LIMIT
    /\ \A i \in Slots : sem_named[i].in_use

\* C20 (no slot rests in the tear-down condition): between calls, a slot in use
\* with to_free set has refs other than 0.
C20_NoPendingTeardown ==
    \A i \in Slots : (sem_named[i].in_use /\ sem_named[i].to_free) => sem_named[i].refs # 0

\* An unlink has just marked a slot that a handle still holds: the slot is in use
\* with to_free set and refs not 0.
C20_Witness ==
    /\ call = "unlink" /\ ret = 0 /\ slot # 0
    /\ sem_named[slot].in_use /\ sem_named[slot].to_free /\ sem_named[slot].refs # 0

============================================================================
